---- MODULE Spec2Model ----
(***************************************************************************)
(* Model of generate_data.py: the synthetic data pipeline of the           *)
(* compliance risk engine.  The script generates an asset metadata table,  *)
(* an access-log table referencing it, merges the asset attributes into    *)
(* the log, injects anomalies into a random selection of log rows, labels  *)
(* every row with Policy_Violation and writes both tables out.             *)
(*                                                                         *)
(* Every draw from the seeded numpy generator is a nondeterministic        *)
(* choice.  Row labels of the pandas frame are 0-based; the model uses the *)
(* 1-based positions of a TLA+ sequence (position p is pandas label p-1).  *)
(* Data_Asset_ID i stands for the string ASSET_{i:04d}, User_ID u for      *)
(* USER_{u:03d}.  A Timestamp is the number of minutes since start_date    *)
(* (2024-01-01 00:00).                                                     *)
(***************************************************************************)
EXTENDS Integers, Sequences, FiniteSets

VARIABLES pc, df_metadata, df_access_logs, anomaly_indices, anomaly_rows,
          anomaly_types, metadata_csv, access_logs_csv

vars == <<pc, df_metadata, df_access_logs, anomaly_indices, anomaly_rows,
          anomaly_types, metadata_csv, access_logs_csv>>

(***************************************************************************)
(* Sizes of the tables, scaled down from the script's 500 / 100000 / 2500. *)
(***************************************************************************)
n_assets == 2

n_logs == 3

n_anomalies == 2

(***************************************************************************)
(* Ranges the script draws from.  The generated values are sampled out of  *)
(* these ranges; the sample sets below name the values that are drawn.     *)
(***************************************************************************)
n_users == 100

WindowDays == 180

DaySamples == {0}

HourSamples == {4, 5}

MinuteSamples == {59}

NewMinuteSamples == {0}

UserSamples == {n_users}

AccessTypeSamples == {"Read"}

IPLocations == {"US", "EU", "AS"}

NonUsLocations == {"EU", "AS"}

OffHours == (21 .. 23) \cup (0 .. 4)

AnomalyTypes == {"plain_phi", "off_hours", "non_us"}

Range(s) == {s[i] : i \in DOMAIN s}

Min(a, b) == IF a < b THEN a ELSE b

(***************************************************************************)
(* Timestamps: start_date + timedelta(days, hours, minutes), and the       *)
(* datetime accessors used by the script.                                  *)
(***************************************************************************)
MakeTimestamp(days_offset, hours_offset, minutes_offset) ==
    days_offset * 1440 + hours_offset * 60 + minutes_offset

DateOf(ts) == ts \div 1440

HourOf(ts) == (ts \div 60) % 24

MinuteOf(ts) == ts % 60

\* Variant: the drawn hour and minute added as an offset instead of replaced.
ReplaceHourMinute_Added(ts, hour, minute) == ts + hour * 60 + minute

ReplaceHourMinute(ts, hour, minute) == DateOf(ts) * 1440 + hour * 60 + minute

(***************************************************************************)
(* Asset metadata: sequential ids, independently drawn flag and status.    *)
(***************************************************************************)
MetadataTables ==
    {m \in [1 .. n_assets -> [Data_Asset_ID : 1 .. n_assets,
                              PHI_Flag : BOOLEAN,
                              Encryption_Status : {"Encrypted", "Plain"}]] :
        \A i \in 1 .. n_assets : m[i].Data_Asset_ID = i}

AssetIds(meta) == {meta[i].Data_Asset_ID : i \in DOMAIN meta}

(***************************************************************************)
(* Raw access-log tables.  Every column of every row is an independent     *)
(* draw.  The tables sampled vary one column at a time around a base row   *)
(* (first asset, US, 20:59 on the last day of the window): the asset, the  *)
(* IP region, or the timestamp.  User_ID and Access_Type are carried       *)
(* through the pipeline untouched and take one sampled value each.         *)
(***************************************************************************)
BaseTimestamp == MakeTimestamp(WindowDays - 1, 20, 59)

Timestamps ==
    {MakeTimestamp(d, h, m) : d \in DaySamples, h \in HourSamples, m \in MinuteSamples}

RawRows(timestamps, assets, locations) ==
    [Timestamp : timestamps,
     User_ID : UserSamples,
     Data_Asset_ID : assets,
     Access_Type : AccessTypeSamples,
     IP_Location : locations]

AccessLogTables(meta) ==
    LET first == {meta[1].Data_Asset_ID}
    IN  [1 .. n_logs -> RawRows({BaseTimestamp}, AssetIds(meta), {"US"})]
        \cup [1 .. n_logs -> RawRows({BaseTimestamp}, first, IPLocations)]
        \cup [1 .. n_logs -> RawRows(Timestamps, first, {"US"})]

(***************************************************************************)
(* Left merge of the asset columns into the log on Data_Asset_ID.  A left  *)
(* row yields one output row per matching asset, in left order; asset ids  *)
(* are unique, so every row yields exactly one.                            *)
(***************************************************************************)
MergeRow(row, meta) ==
    LET a == CHOOSE i \in DOMAIN meta : meta[i].Data_Asset_ID = row.Data_Asset_ID
    IN  [Timestamp |-> row.Timestamp,
         User_ID |-> row.User_ID,
         Data_Asset_ID |-> row.Data_Asset_ID,
         Access_Type |-> row.Access_Type,
         IP_Location |-> row.IP_Location,
         PHI_Flag |-> meta[a].PHI_Flag,
         Encryption_Status |-> meta[a].Encryption_Status]

Merge(logs, meta) == [i \in DOMAIN logs |-> MergeRow(logs[i], meta)]

(***************************************************************************)
(* Selection: shuffle all row positions, keep the first n_anomalies.       *)
(***************************************************************************)
\* Variant: positions drawn with replacement instead of shuffled.
Shuffles_WithReplacement(n) == [1 .. n -> 1 .. n]

Shuffles(n) ==
    {s \in [1 .. n -> 1 .. n] : \A i, j \in 1 .. n : i # j => s[i] # s[j]}

AnomalyIndexChoices(n) ==
    {SubSeq(s, 1, Min(n_anomalies, n)) : s \in Shuffles(n)}

(***************************************************************************)
(* The three anomaly branches: the rows each can produce from a row.       *)
(***************************************************************************)
\* Variant: the 0-based frame positions of the assets instead of their ids.
PlainPhiAssets_Positions(meta) ==
    {i - 1 : i \in {j \in DOMAIN meta :
        meta[j].PHI_Flag = TRUE /\ meta[j].Encryption_Status = "Plain"}}

PlainPhiAssets(meta) ==
    {meta[i].Data_Asset_ID : i \in {j \in DOMAIN meta :
        meta[j].PHI_Flag = TRUE /\ meta[j].Encryption_Status = "Plain"}}

\* Variant: the flag and the status set outside the emptiness test.
PlainPhiOutcomes_Unguarded(row, meta) ==
    IF Cardinality(PlainPhiAssets(meta)) > 0
    THEN {[row EXCEPT !.Data_Asset_ID = a,
                      !.PHI_Flag = TRUE,
                      !.Encryption_Status = "Plain"] : a \in PlainPhiAssets(meta)}
    ELSE {[row EXCEPT !.PHI_Flag = TRUE, !.Encryption_Status = "Plain"]}

\* Variant: the asset id swapped without updating the denormalized copies.
PlainPhiOutcomes_IdOnly(row, meta) ==
    IF Cardinality(PlainPhiAssets(meta)) > 0
    THEN {[row EXCEPT !.Data_Asset_ID = a] : a \in PlainPhiAssets(meta)}
    ELSE {row}

PlainPhiOutcomes(row, meta) ==
    IF Cardinality(PlainPhiAssets(meta)) > 0
    THEN {[row EXCEPT !.Data_Asset_ID = a,
                      !.PHI_Flag = TRUE,
                      !.Encryption_Status = "Plain"] : a \in PlainPhiAssets(meta)}
    ELSE {row}

OffHoursOutcomes(row) ==
    {[row EXCEPT !.Timestamp = ReplaceHourMinute(row.Timestamp, hour, minute)] :
        hour \in OffHours, minute \in NewMinuteSamples}

\* Variant: the region drawn from all three regions.
NonUsOutcomes_AnyRegion(row) ==
    {[row EXCEPT !.IP_Location = ip] : ip \in IPLocations}

NonUsOutcomes(row) ==
    {[row EXCEPT !.IP_Location = ip] : ip \in NonUsLocations}

(***************************************************************************)
(* df.loc[anomaly_indices] = anomaly_rows: positional assignment.          *)
(***************************************************************************)
\* Variant: the produced rows written to the first positions of the frame.
ReplaceRows_FirstPositions(df, indices, rows) ==
    [p \in DOMAIN df |-> IF p \in DOMAIN rows THEN rows[p] ELSE df[p]]

\* Variant: the produced rows never written back.
ReplaceRows_Dropped(df, indices, rows) == df

ReplaceRows(df, indices, rows) ==
    [p \in DOMAIN df |->
        IF \E k \in DOMAIN indices : indices[k] = p
        THEN rows[CHOOSE k \in DOMAIN indices : indices[k] = p]
        ELSE df[p]]

(***************************************************************************)
(* Labelling.                                                              *)
(***************************************************************************)
AddLabelColumn(row) ==
    [Timestamp |-> row.Timestamp,
     User_ID |-> row.User_ID,
     Data_Asset_ID |-> row.Data_Asset_ID,
     Access_Type |-> row.Access_Type,
     IP_Location |-> row.IP_Location,
     PHI_Flag |-> row.PHI_Flag,
     Encryption_Status |-> row.Encryption_Status,
     Policy_Violation |-> 0]

\* Variant: the evening boundary taken strictly.
Violation_StrictEvening(row) ==
    \/ row.PHI_Flag /\ row.Encryption_Status = "Plain"
    \/ HourOf(row.Timestamp) > 21 \/ HourOf(row.Timestamp) < 5
    \/ row.IP_Location # "US"

Violation(row) ==
    \/ row.PHI_Flag /\ row.Encryption_Status = "Plain"
    \/ HourOf(row.Timestamp) >= 21 \/ HourOf(row.Timestamp) < 5
    \/ row.IP_Location # "US"

\* Variant: the label added to the column instead of assigned.
LabelRowAt_Accumulated(df, idx) ==
    [df EXCEPT ![idx].Policy_Violation = @ + IF Violation(df[idx]) THEN 1 ELSE 0]

LabelRowAt(df, idx) ==
    [df EXCEPT ![idx].Policy_Violation = IF Violation(df[idx]) THEN 1 ELSE 0]

IterRows(df) == [p \in 1 .. Len(df) |-> p]

RECURSIVE LabelPass(_, _)
LabelPass(df, order) ==
    IF order = <<>> THEN df
    ELSE LabelPass(LabelRowAt(df, Head(order)), Tail(order))

----------------------------------------------------------------------------
(***************************************************************************)
(* The script, top to bottom.  pc names the statement that runs next;      *)
(* anomaly_types records the anomaly_type drawn by each loop iteration.    *)
(* The injection loop appends to anomaly_rows and leaves the frame alone;  *)
(* the frame is assigned once, after the loop.                             *)
(***************************************************************************)
Init ==
    /\ pc = "gen_metadata"
    /\ df_metadata = <<>>
    /\ df_access_logs = <<>>
    /\ anomaly_indices = <<>>
    /\ anomaly_rows = <<>>
    /\ anomaly_types = <<>>
    /\ metadata_csv = <<>>
    /\ access_logs_csv = <<>>

GenerateMetadata ==
    /\ pc = "gen_metadata"
    /\ \E m \in MetadataTables :
        /\ df_metadata' = m
        /\ metadata_csv' = m
    /\ pc' = "gen_logs"
    /\ UNCHANGED <<df_access_logs, anomaly_indices, anomaly_rows, anomaly_types,
                   access_logs_csv>>

GenerateAccessLogs ==
    /\ pc = "gen_logs"
    /\ df_access_logs' \in AccessLogTables(df_metadata)
    /\ pc' = "merge"
    /\ UNCHANGED <<df_metadata, anomaly_indices, anomaly_rows, anomaly_types,
                   metadata_csv, access_logs_csv>>

MergeMetadata ==
    /\ pc = "merge"
    /\ df_access_logs' = Merge(df_access_logs, df_metadata)
    /\ pc' = "select"
    /\ UNCHANGED <<df_metadata, anomaly_indices, anomaly_rows, anomaly_types,
                   metadata_csv, access_logs_csv>>

SelectAnomalyIndices ==
    /\ pc = "select"
    /\ anomaly_indices' \in AnomalyIndexChoices(Len(df_access_logs))
    /\ pc' = "inject"
    /\ UNCHANGED <<df_metadata, df_access_logs, anomaly_rows, anomaly_types,
                   metadata_csv, access_logs_csv>>

CurrentRow == df_access_logs[anomaly_indices[Len(anomaly_rows) + 1]]

InjectStep(type, outcomes) ==
    /\ pc = "inject"
    /\ Len(anomaly_rows) < Len(anomaly_indices)
    /\ \E row \in outcomes : anomaly_rows' = Append(anomaly_rows, row)
    /\ anomaly_types' = Append(anomaly_types, type)
    /\ UNCHANGED <<pc, df_metadata, df_access_logs, anomaly_indices,
                   metadata_csv, access_logs_csv>>

InjectPlainPhi ==
    /\ pc = "inject" /\ Len(anomaly_rows) < Len(anomaly_indices)
    /\ InjectStep("plain_phi", PlainPhiOutcomes(CurrentRow, df_metadata))

InjectOffHours ==
    /\ pc = "inject" /\ Len(anomaly_rows) < Len(anomaly_indices)
    /\ InjectStep("off_hours", OffHoursOutcomes(CurrentRow))

InjectNonUs ==
    /\ pc = "inject" /\ Len(anomaly_rows) < Len(anomaly_indices)
    /\ InjectStep("non_us", NonUsOutcomes(CurrentRow))

ReplaceSelectedRows ==
    /\ pc = "inject"
    /\ Len(anomaly_rows) = Len(anomaly_indices)
    /\ df_access_logs' = ReplaceRows(df_access_logs, anomaly_indices, anomaly_rows)
    /\ pc' = "label"
    /\ UNCHANGED <<df_metadata, anomaly_indices, anomaly_rows, anomaly_types,
                   metadata_csv, access_logs_csv>>

LabelPolicyViolations ==
    /\ pc = "label"
    /\ df_access_logs' =
          LabelPass([p \in DOMAIN df_access_logs |-> AddLabelColumn(df_access_logs[p])],
                    IterRows(df_access_logs))
    /\ pc' = "save"
    /\ UNCHANGED <<df_metadata, anomaly_indices, anomaly_rows, anomaly_types,
                   metadata_csv, access_logs_csv>>

SaveAccessLogs ==
    /\ pc = "save"
    /\ access_logs_csv' = df_access_logs
    /\ pc' = "done"
    /\ UNCHANGED <<df_metadata, df_access_logs, anomaly_indices, anomaly_rows,
                   anomaly_types, metadata_csv>>

Next ==
    \/ GenerateMetadata
    \/ GenerateAccessLogs
    \/ MergeMetadata
    \/ SelectAnomalyIndices
    \/ InjectPlainPhi
    \/ InjectOffHours
    \/ InjectNonUs
    \/ ReplaceSelectedRows
    \/ LabelPolicyViolations
    \/ SaveAccessLogs

Spec == Init /\ [][Next]_vars

----------------------------------------------------------------------------
(***************************************************************************)
(* Properties.                                                             *)
(***************************************************************************)
Merged == pc \in {"select", "inject", "label", "save", "done"}

Labeled == pc \in {"save", "done"}

\* Iteration k of the injection loop: its target position, the row it read
\* (the frame is untouched until the loop has ended) and the row it produced.
Iterations == DOMAIN anomaly_rows

TargetOf(k) == anomaly_indices[k]

OriginalOf(k) == df_access_logs[anomaly_indices[k]]

ProducedBy(k) == anomaly_rows[k]

AssetOf(id) == df_metadata[CHOOSE i \in DOMAIN df_metadata : df_metadata[i].Data_Asset_ID = id]

NoPlainPhiAsset ==
    ~ \E i \in DOMAIN df_metadata :
        df_metadata[i].PHI_Flag /\ df_metadata[i].Encryption_Status = "Plain"

AllLogRows == Range(df_access_logs) \cup Range(anomaly_rows) \cup Range(access_logs_csv)

RuleHolds(row) ==
    \/ row.PHI_Flag = TRUE /\ row.Encryption_Status = "Plain"
    \/ HourOf(row.Timestamp) >= 21
    \/ HourOf(row.Timestamp) < 5
    \/ row.IP_Location # "US"

\* C1: in the labeled table and in the written file, a row has
\* Policy_Violation = 1 exactly when it is plaintext PHI, or its hour is >= 21
\* or < 5, or its IP region is not US; otherwise it has Policy_Violation = 0.
C1_LabelIffRule ==
    /\ Labeled =>
         \A p \in DOMAIN df_access_logs :
            df_access_logs[p].Policy_Violation = IF RuleHolds(df_access_logs[p]) THEN 1 ELSE 0
    /\ \A p \in DOMAIN access_logs_csv :
         /\ access_logs_csv[p].Policy_Violation = IF RuleHolds(access_logs_csv[p]) THEN 1 ELSE 0
         /\ access_logs_csv[p].IP_Location # "US" => access_logs_csv[p].Policy_Violation = 1
         /\ (HourOf(access_logs_csv[p].Timestamp) < 5 \/ HourOf(access_logs_csv[p].Timestamp) >= 21)
               => access_logs_csv[p].Policy_Violation = 1

C1_Witness ==
    /\ pc = "done"
    /\ \E p, q, r \in DOMAIN access_logs_csv :
         /\ access_logs_csv[p].Policy_Violation = 0
         /\ access_logs_csv[q].Policy_Violation = 1
         /\ access_logs_csv[q].IP_Location # "US"
         /\ HourOf(access_logs_csv[q].Timestamp) = 20
         /\ access_logs_csv[r].Policy_Violation = 1
         /\ access_logs_csv[r].IP_Location = "US"
         /\ HourOf(access_logs_csv[r].Timestamp) = 21
         /\ ~ access_logs_csv[r].PHI_Flag

\* C2: once the log is generated, and after every injection step, every log
\* row (in the frame, among the rows the loop produced, in the written file)
\* references an asset id of the asset table.
C2_ReferentialIntegrity ==
    pc \notin {"gen_metadata", "gen_logs"} =>
        \A row \in AllLogRows : row.Data_Asset_ID \in AssetIds(df_metadata)

C2_Witness ==
    /\ pc = "inject"
    /\ \E k \in Iterations :
         /\ anomaly_types[k] = "plain_phi"
         /\ ProducedBy(k).Data_Asset_ID # OriginalOf(k).Data_Asset_ID

\* C3: injection selects exactly n_anomalies distinct row positions, every
\* iteration handles the next selected position once, draws exactly one of
\* the three anomaly types for it and changes only the columns of that type.
ColumnsOf(type) ==
    CASE type = "plain_phi" -> {"Data_Asset_ID", "PHI_Flag", "Encryption_Status"}
      [] type = "off_hours" -> {"Timestamp"}
      [] type = "non_us" -> {"IP_Location"}

C3_ExactlyKDistinctOneType ==
    /\ pc \in {"inject", "label", "save", "done"} =>
         /\ Len(anomaly_indices) = n_anomalies
         /\ \A i, j \in DOMAIN anomaly_indices :
              i # j => anomaly_indices[i] # anomaly_indices[j]
         /\ Range(anomaly_indices) \subseteq 1 .. n_logs
         /\ Len(anomaly_rows) = Len(anomaly_types)
         /\ Len(anomaly_rows) <= n_anomalies
         /\ \A k \in Iterations : anomaly_types[k] \in AnomalyTypes
    /\ pc \in {"label", "save", "done"} => Len(anomaly_rows) = n_anomalies
    /\ pc = "inject" =>
         \A k \in Iterations :
            \A c \in DOMAIN ProducedBy(k) :
               c \notin ColumnsOf(anomaly_types[k]) => ProducedBy(k)[c] = OriginalOf(k)[c]

C3_Witness ==
    /\ pc = "done"
    /\ Len(anomaly_rows) = n_anomalies
    /\ anomaly_indices[1] # anomaly_indices[2]
    /\ anomaly_types[1] # anomaly_types[2]

PlainPhiRowsKept ==
    /\ pc' \in {"inject", "label"}
    /\ \A k \in DOMAIN anomaly_rows' :
         anomaly_types'[k] = "plain_phi" =>
            /\ anomaly_rows'[k] = df_access_logs[anomaly_indices[k]]
            /\ df_access_logs'[anomaly_indices[k]] = df_access_logs[anomaly_indices[k]]

\* C4: when no asset is plaintext PHI, a plain_phi iteration produces its
\* target row unchanged, the loop goes on to the remaining selected rows, and
\* the frame assignment that ends the loop leaves that row as it was.
C4_PlainPhiNoOp ==
    [][(pc = "inject" /\ NoPlainPhiAsset) => PlainPhiRowsKept]_vars

C4_Witness ==
    /\ pc = "label"
    /\ NoPlainPhiAsset
    /\ anomaly_types[1] = "plain_phi"
    /\ anomaly_types[2] = "off_hours"
    /\ MinuteOf(df_access_logs[anomaly_indices[2]].Timestamp) = 0

\* C5: labelling the labeled table again, visiting the rows in any order,
\* gives the same table, and two rows with the same PHI flag, encryption
\* status, hour and IP region carry the same label.
C5_LabelerIdempotent ==
    Labeled =>
        /\ \A order \in Shuffles(Len(df_access_logs)) :
              LabelPass(df_access_logs, order) = df_access_logs
        /\ \A p, q \in DOMAIN df_access_logs :
              (/\ df_access_logs[p].PHI_Flag = df_access_logs[q].PHI_Flag
               /\ df_access_logs[p].Encryption_Status = df_access_logs[q].Encryption_Status
               /\ HourOf(df_access_logs[p].Timestamp) = HourOf(df_access_logs[q].Timestamp)
               /\ df_access_logs[p].IP_Location = df_access_logs[q].IP_Location)
              => df_access_logs[p].Policy_Violation = df_access_logs[q].Policy_Violation

C5_Witness ==
    /\ pc = "save"
    /\ \E p, q \in DOMAIN df_access_logs :
         /\ p < q
         /\ df_access_logs[p].Policy_Violation = 1
         /\ df_access_logs[q].Policy_Violation = 0

UnselectedRowsKept ==
    /\ Len(df_access_logs) = n_logs
    /\ Len(df_access_logs') = n_logs
    /\ df_metadata' = df_metadata
    /\ \A p \in DOMAIN df_access_logs :
         p \notin Range(anomaly_indices') => df_access_logs'[p] = df_access_logs[p]

\* C6: from selection to the end of injection the frame keeps its n_logs
\* rows, every row position that is not selected keeps all its columns, and
\* the asset table is not modified.
C6_InjectionFrame ==
    [][(pc \in {"select", "inject"}) => UnselectedRowsKept]_vars

C6_Witness ==
    /\ pc = "label"
    /\ \E p \in DOMAIN df_access_logs : p \notin Range(anomaly_indices)
    /\ \A k \in Iterations : df_access_logs[TargetOf(k)] = ProducedBy(k)
    /\ \E k \in Iterations :
         /\ anomaly_types[k] = "off_hours"
         /\ MinuteOf(df_access_logs[TargetOf(k)].Timestamp) = 0

\* C7 (as stated): a non_us iteration puts EU or AS in the row's IP_Location
\* and the new value always differs from the row's prior value.
C7_NonUsAlwaysChanges ==
    pc = "inject" =>
        \A k \in Iterations :
           anomaly_types[k] = "non_us" =>
              /\ ProducedBy(k).IP_Location \in {"EU", "AS"}
              /\ ProducedBy(k).IP_Location # OriginalOf(k).IP_Location

\* C7 (amended): a non_us iteration puts EU or AS in the row's IP_Location,
\* touches no other column, and changes the value whenever the prior value
\* was US.
C7_NonUsNeverUs ==
    pc = "inject" =>
        \A k \in Iterations :
           anomaly_types[k] = "non_us" =>
              /\ ProducedBy(k).IP_Location \in {"EU", "AS"}
              /\ [ProducedBy(k) EXCEPT !.IP_Location = OriginalOf(k).IP_Location] = OriginalOf(k)
              /\ OriginalOf(k).IP_Location = "US" =>
                    ProducedBy(k).IP_Location # OriginalOf(k).IP_Location

C7_Witness ==
    /\ pc = "inject"
    /\ \E k, l \in Iterations :
         /\ anomaly_types[k] = "non_us"
         /\ OriginalOf(k).IP_Location = "US"
         /\ anomaly_types[l] = "non_us"
         /\ OriginalOf(l).IP_Location = "EU"
         /\ ProducedBy(l).IP_Location = "AS"

\* C8: an off_hours iteration sets the hour to one of 21,22,23,0,1,2,3,4 and
\* the minute to a value in 0..59, keeps the date and every other column, and
\* the new timestamp is inside the 180-day window.
C8_OffHoursFrame ==
    pc = "inject" =>
        \A k \in Iterations :
           anomaly_types[k] = "off_hours" =>
              /\ HourOf(ProducedBy(k).Timestamp) \in {21, 22, 23, 0, 1, 2, 3, 4}
              /\ MinuteOf(ProducedBy(k).Timestamp) \in 0 .. 59
              /\ DateOf(ProducedBy(k).Timestamp) = DateOf(OriginalOf(k).Timestamp)
              /\ [ProducedBy(k) EXCEPT !.Timestamp = OriginalOf(k).Timestamp] = OriginalOf(k)
              /\ ProducedBy(k).Timestamp >= 0
              /\ ProducedBy(k).Timestamp < 180 * 24 * 60

C8_Witness ==
    /\ pc = "inject"
    /\ \E k \in Iterations :
         /\ anomaly_types[k] = "off_hours"
         /\ OriginalOf(k).Timestamp = BaseTimestamp
         /\ HourOf(ProducedBy(k).Timestamp) = 23
         /\ DateOf(ProducedBy(k).Timestamp) = 179

\* C9: from the merge onward every log row's PHI_Flag and Encryption_Status
\* equal those of the asset its Data_Asset_ID references.
C9_DenormalizedCopiesConsistent ==
    Merged =>
        \A row \in AllLogRows :
           /\ row.PHI_Flag = AssetOf(row.Data_Asset_ID).PHI_Flag
           /\ row.Encryption_Status = AssetOf(row.Data_Asset_ID).Encryption_Status

C9_Witness ==
    /\ pc = "done"
    /\ \E k \in Iterations, p \in DOMAIN access_logs_csv :
         /\ anomaly_types[k] = "plain_phi"
         /\ access_logs_csv[TargetOf(k)].Data_Asset_ID # access_logs_csv[p].Data_Asset_ID
         /\ access_logs_csv[TargetOf(k)].PHI_Flag
         /\ ~ access_logs_csv[p].PHI_Flag

\* C10: in the written log every selected row has Policy_Violation = 1,
\* unless its type was plain_phi and the asset table has no plaintext-PHI
\* asset.
C10_EffectiveInjectionsLabeled ==
    pc = "done" =>
        \A k \in DOMAIN anomaly_indices :
           (anomaly_types[k] # "plain_phi" \/ ~ NoPlainPhiAsset) =>
              access_logs_csv[anomaly_indices[k]].Policy_Violation = 1

C10_Witness ==
    /\ pc = "done"
    /\ NoPlainPhiAsset
    /\ \E k, l \in DOMAIN anomaly_indices :
         /\ anomaly_types[k] = "plain_phi"
         /\ access_logs_csv[anomaly_indices[k]].Policy_Violation = 0
         /\ anomaly_types[l] = "non_us"
         /\ access_logs_csv[anomaly_indices[l]].Policy_Violation = 1

====
